---- MODULE Spec2Model ----
(***************************************************************************)
(* Model of the robots-compliance gate (RobotsManager) and of the locale   *)
(* URL utilities (ExtractLocale, BuildLocaleURL, SelectPreferredLocaleURL) *)
(* of package fetcher.                                                     *)
(*                                                                         *)
(* Strings that the code inspects character by character are sequences of  *)
(* one-character strings; strings the code only compares or stores (user   *)
(* agents, href values, error values) are plain strings.                   *)
(***************************************************************************)
EXTENDS Integers, Sequences, FiniteSets, TLC

VARIABLES
    \* ---- RobotsManager (one instance) and its callers
    robotsData,   \* r.robotsData: NoData (nil) or a parsed ruleset
    fetched,      \* r.fetched
    basePath,     \* r.basePath, as normalised by NewRobotsManager
    mu,           \* r.mu: Unlocked, or the worker that holds the lock
    pc,           \* per worker: where it is inside FetchRobotsTxt / IsAllowed
    arg,          \* per worker: the argument of the call in progress
    ret,          \* per worker: what its last completed call returned
    resp,         \* per worker: what r.client.Do returned to the call in
                  \* progress, NoResp while it has not been called
    later,        \* per worker: the results of the FetchRobotsTxt calls that
                  \* had returned when the call in progress was invoked
    returned,     \* the results of the FetchRobotsTxt calls that have returned
    requests,     \* number of r.client.Do(req) calls made so far
    calls,        \* number of calls invoked so far (bounded by MaxCalls)
    \* ---- ExtractLocale / BuildLocaleURL
    lflow,        \* "off", "crawl" (a crawled URL is split) or "build" (a URL
                  \* is built from a locale and a canonical path, then split)
    lstage,       \* "input", "url", "parsed", "extracted"
    lbase,        \* baseURL given to BuildLocaleURL
    llocale,      \* locale given to BuildLocaleURL
    lcanon,       \* canonical path given to BuildLocaleURL
    lparam,       \* cfg.ParamName
    lurl,         \* the URL string (BuildLocaleURL's result, or a crawled URL)
    lu,           \* the *url.URL handed to ExtractLocale
    lres,         \* ExtractLocale's result
    \* ---- SelectPreferredLocaleURL
    pstage,       \* "off", "input", "selected"
    hreflangMap,  \* the hreflang map (a function on its keys)
    priority,     \* the priority list
    psel          \* the returned (locale, url)

robotsVars == <<robotsData, fetched, basePath, mu, pc, arg, ret, resp, later,
                returned, requests, calls>>
localeVars == <<lflow, lstage, lbase, llocale, lcanon, lparam, lurl, lu, lres>>
pickerVars == <<pstage, hreflangMap, priority, psel>>
vars == <<robotsVars, localeVars, pickerVars>>

-----------------------------------------------------------------------------
(* Strings as sequences of characters                                      *)

LowerSeq == <<"a","b","c","d","e","f","g","h","i","j","k","l","m",
              "n","o","p","q","r","s","t","u","v","w","x","y","z">>
UpperSeq == <<"A","B","C","D","E","F","G","H","I","J","K","L","M",
              "N","O","P","Q","R","S","T","U","V","W","X","Y","Z">>
DigitSeq == <<"0","1","2","3","4","5","6","7","8","9">>

Range(s) == {s[i] : i \in DOMAIN s}
IsLower(c) == c \in Range(LowerSeq)
IsUpper(c) == c \in Range(UpperSeq)
IsLetter(c) == IsLower(c) \/ IsUpper(c)
IsDigit(c) == c \in Range(DigitSeq)
IsHex(c) == IsDigit(c) \/ c \in {"a","b","c","d","e","f","A","B","C","D","E","F"}

\* strings.ToLower, one character, then a whole string
ToLowerChar(c) ==
    IF IsUpper(c) THEN LowerSeq[CHOOSE i \in DOMAIN UpperSeq : UpperSeq[i] = c]
    ELSE c
ToLower(s) == [i \in DOMAIN s |-> ToLowerChar(s[i])]

\* s[from..to] with Go's half-open slices written as closed 1-based ranges
Slice(s, from, to) == IF to < from THEN <<>> ELSE SubSeq(s, from, to)
Drop(s, n) == Slice(s, n + 1, Len(s))
Take(s, n) == Slice(s, 1, n)

\* strings.HasPrefix / strings.HasSuffix / strings.TrimPrefix
HasPrefix(s, p) == Len(p) <= Len(s) /\ Take(s, Len(p)) = p
HasSuffix(s, p) == Len(p) <= Len(s) /\ Drop(s, Len(s) - Len(p)) = p
TrimPrefix(s, p) == IF HasPrefix(s, p) THEN Drop(s, Len(p)) ELSE s

\* strings.Index: the first position >= from where p occurs in s, 0 if none
IndexFrom(s, p, from) ==
    LET hits == {i \in from..(Len(s) - Len(p) + 1) : Slice(s, i, i + Len(p) - 1) = p}
    IN IF hits = {} THEN 0 ELSE CHOOSE i \in hits : \A j \in hits : i <= j
Index(s, p) == IndexFrom(s, p, 1)
Contains(s, p) == Index(s, p) # 0

\* strings.ReplaceAll(s, "//", "/"): one left-to-right pass over
\* non-overlapping occurrences
RECURSIVE CollapseSlashes(_)
CollapseSlashes(s) ==
    IF Len(s) < 2 THEN s
    ELSE IF s[1] = "/" /\ s[2] = "/" THEN <<"/">> \o CollapseSlashes(Drop(s, 2))
    ELSE <<s[1]>> \o CollapseSlashes(Drop(s, 1))

RECURSIVE Concat(_)
Concat(ss) == IF ss = <<>> THEN <<>> ELSE Head(ss) \o Concat(Tail(ss))

-----------------------------------------------------------------------------
(* net/url as the code uses it                                             *)

\* The characters url.getScheme lets a scheme continue over
IsSchemeChar(c) == IsLetter(c) \/ IsDigit(c) \/ c \in {"+", "-", "."}

\* url.getScheme: [err, scheme, rest]
GetScheme(s) ==
    LET stops == {i \in DOMAIN s : ~IsLetter(s[i])}
        i == IF stops = {} THEN 0 ELSE CHOOSE k \in stops : \A j \in stops : k <= j
    IN  IF i = 0 THEN [err |-> FALSE, scheme |-> <<>>, rest |-> s]
        ELSE IF s[i] = ":" THEN
            IF i = 1 THEN [err |-> TRUE, scheme |-> <<>>, rest |-> <<>>]
            ELSE [err |-> FALSE, scheme |-> Take(s, i - 1), rest |-> Drop(s, i)]
        ELSE IF IsSchemeChar(s[i]) /\ i > 1 THEN
            \* digits, "+", "-", "." continue a scheme that has begun
            LET stops2 == {k \in i..Len(s) : ~IsSchemeChar(s[k])}
                k2 == IF stops2 = {} THEN 0
                      ELSE CHOOSE k \in stops2 : \A j \in stops2 : k <= j
            IN  IF k2 # 0 /\ s[k2] = ":"
                THEN [err |-> FALSE, scheme |-> Take(s, k2 - 1), rest |-> Drop(s, k2)]
                ELSE [err |-> FALSE, scheme |-> <<>>, rest |-> s]
        ELSE [err |-> FALSE, scheme |-> <<>>, rest |-> s]

\* url.unescape's validity test: every "%" is followed by two hex digits
BadEscape(s) ==
    \E i \in DOMAIN s :
        s[i] = "%" /\ ~(i + 2 <= Len(s) /\ IsHex(s[i + 1]) /\ IsHex(s[i + 2]))

\* strings.Cut(s, sep) for a one-character separator
CutBefore(s, c) == IF Index(s, <<c>>) = 0 THEN s ELSE Take(s, Index(s, <<c>>) - 1)
CutAfter(s, c) == IF Index(s, <<c>>) = 0 THEN <<>> ELSE Drop(s, Index(s, <<c>>))

NoURL == [ok |-> FALSE, Scheme |-> <<>>, Host |-> <<>>, Path |-> <<>>,
          RawQuery |-> <<>>, Fragment |-> <<>>, Opaque |-> <<>>]

\* url.Parse. Inputs never hold a valid percent escape, user info or a port,
\* so unescaping a valid string and splitting the authority change nothing.
UrlParse(raw) ==
    LET s    == CutBefore(raw, "#")
        frag == CutAfter(raw, "#")
        gs   == GetScheme(s)
        rest0 == CutBefore(gs.rest, "?")
        query == CutAfter(gs.rest, "?")
        hasAuth == HasPrefix(rest0, <<"/", "/">>)
                   /\ (gs.scheme # <<>> \/ ~HasPrefix(rest0, <<"/", "/", "/">>))
        auth  == IF hasAuth THEN CutBefore(Drop(rest0, 2), "/") ELSE <<>>
        path  == IF hasAuth THEN Drop(rest0, 2 + Len(auth)) ELSE rest0
    IN  IF gs.err THEN NoURL
        ELSE IF ~HasPrefix(rest0, <<"/">>) /\ gs.scheme # <<>> THEN
            [NoURL EXCEPT !.ok = TRUE, !.Scheme = ToLower(gs.scheme),
                          !.Opaque = rest0, !.RawQuery = query, !.Fragment = frag]
        ELSE IF ~HasPrefix(rest0, <<"/">>) /\ Contains(CutBefore(rest0, "/"), <<":">>)
            THEN NoURL
        ELSE IF BadEscape(auth) \/ BadEscape(path) \/ BadEscape(frag) THEN NoURL
        ELSE [ok |-> TRUE, Scheme |-> ToLower(gs.scheme), Host |-> auth,
              Path |-> path, RawQuery |-> query, Fragment |-> frag, Opaque |-> <<>>]

\* (*url.URL).String for the URLs UrlParse builds
UrlString(u) ==
    (IF u.Scheme # <<>> THEN u.Scheme \o <<":">> ELSE <<>>)
    \o (IF u.Opaque # <<>> THEN u.Opaque
        ELSE (IF u.Scheme # <<>> \/ u.Host # <<>>
              THEN (IF u.Host # <<>> \/ u.Path # <<>> THEN <<"/", "/">> ELSE <<>>) \o u.Host
              ELSE <<>>)
             \o u.Path)
    \o (IF u.RawQuery # <<>> THEN <<"?">> \o u.RawQuery ELSE <<>>)
    \o (IF u.Fragment # <<>> THEN <<"#">> \o u.Fragment ELSE <<>>)

\* strings.Split(s, sep) for a one-character separator
RECURSIVE Split(_, _)
Split(s, c) ==
    IF Index(s, <<c>>) = 0 THEN <<s>>
    ELSE <<CutBefore(s, c)>> \o Split(CutAfter(s, c), c)

\* url.ParseQuery: the key/value pairs of a raw query, in order; empty
\* settings are skipped
RECURSIVE PairsOf(_)
PairsOf(parts) ==
    IF parts = <<>> THEN <<>>
    ELSE (IF Head(parts) = <<>> \/ BadEscape(Head(parts)) THEN <<>>
          ELSE << <<CutBefore(Head(parts), "="), CutAfter(Head(parts), "=")>> >>)
         \o PairsOf(Tail(parts))
ParseQuery(raw) == PairsOf(Split(raw, "&"))

\* url.Values.Get: the first value of the key, "" when absent
QueryGet(raw, name) ==
    LET ps == ParseQuery(raw)
        hits == {i \in DOMAIN ps : ps[i][1] = name}
    IN IF hits = {} THEN <<>> ELSE ps[CHOOSE i \in hits : \A j \in hits : i <= j][2]

\* Byte order of the characters that occur in keys
CharOrder == <<"-", ".", "/">> \o DigitSeq \o <<":", "=", "?">> \o UpperSeq
             \o <<"_">> \o LowerSeq
Rank(c) == IF c \in Range(CharOrder)
           THEN CHOOSE i \in DOMAIN CharOrder : CharOrder[i] = c ELSE 0
RECURSIVE StrLess(_, _)
StrLess(a, b) ==
    IF b = <<>> THEN FALSE
    ELSE IF a = <<>> THEN TRUE
    ELSE IF Rank(Head(a)) # Rank(Head(b)) THEN Rank(Head(a)) < Rank(Head(b))
    ELSE StrLess(Tail(a), Tail(b))

\* url.Values.Set followed by url.Values.Encode: the key's values are
\* replaced by the one value, then keys are written in sorted order, the
\* values of one key in their original order
RECURSIVE EncodeKeys(_, _)
EncodeKeys(keys, ps) ==
    IF keys = {} THEN <<>>
    ELSE LET k == CHOOSE x \in keys : \A y \in keys : x = y \/ StrLess(x, y)
             mine == SelectSeq(ps, LAMBDA p : p[1] = k)
         IN  [i \in DOMAIN mine |-> k \o <<"=">> \o mine[i][2]]
             \o EncodeKeys(keys \ {k}, ps)
RECURSIVE JoinAmp(_)
JoinAmp(parts) ==
    IF parts = <<>> THEN <<>>
    ELSE IF Len(parts) = 1 THEN Head(parts)
    ELSE Head(parts) \o <<"&">> \o JoinAmp(Tail(parts))
QuerySetEncode(raw, name, value) ==
    LET ps == SelectSeq(ParseQuery(raw), LAMBDA p : p[1] # name)
             \o << <<name, value>> >>
    IN JoinAmp(EncodeKeys({ps[i][1] : i \in DOMAIN ps}, ps))

-----------------------------------------------------------------------------
(* locale.go                                                               *)

\* KnownLocales: the registry of recognised locale codes
KnownLocales == {
    <<"e","n">>, <<"e","n","-","u","s">>, <<"e","n","-","g","b">>,
    <<"j","a">>, <<"j","a","-","j","p">>, <<"z","h">>,
    <<"z","h","-","c","n">>, <<"z","h","-","t","w">>, <<"z","h","-","h","k">>,
    <<"k","o">>, <<"k","o","-","k","r">>, <<"d","e">>,
    <<"d","e","-","d","e">>, <<"f","r">>, <<"f","r","-","f","r">>,
    <<"e","s">>, <<"e","s","-","e","s">>, <<"i","t">>,
    <<"i","t","-","i","t">>, <<"p","t">>, <<"p","t","-","b","r">>,
    <<"r","u">>, <<"r","u","-","r","u">>, <<"a","r">>,
    <<"n","l">>, <<"p","l">>, <<"t","r">>,
    <<"v","i">>, <<"t","h">>, <<"i","d">>,
    <<"m","s">>}

\* KnownLocales[potentialLocale]
IsKnownLocaleAny(code) == TRUE
IsKnownLocale(code) == code \in KnownLocales

\* localePathPattern, `/([a-z]{2}(?:-[a-zA-Z]{2,4})?)/`, tried at position i
\* of path: the position of the closing slash, or 0 when it does not match
\* there. The optional region and the closing slash exclude each other at
\* every position, so at most one way of matching exists.
MatchEndAt(path, i) ==
    IF ~(i + 3 <= Len(path) /\ path[i] = "/"
         /\ IsLower(path[i + 1]) /\ IsLower(path[i + 2]))
    THEN 0
    ELSE IF path[i + 3] = "/" THEN i + 3
    ELSE IF path[i + 3] # "-" THEN 0
    ELSE LET ends == {e \in (i + 6)..(i + 8) :
                         /\ e <= Len(path)
                         /\ path[e] = "/"
                         /\ \A k \in (i + 4)..(e - 1) : IsLetter(path[k])}
         IN IF ends = {} THEN 0 ELSE CHOOSE e \in ends : TRUE

\* localePathPattern.FindAllStringSubmatchIndex(path, -1): the successive
\* leftmost matches, each search resuming after the end of the match before
\* it. A match is <<start of match, position of its closing slash>>.
RECURSIVE FindAllFrom(_, _)
FindAllFrom(path, from) ==
    LET starts == {i \in from..Len(path) : MatchEndAt(path, i) # 0}
    IN  IF starts = {} THEN <<>>
        ELSE LET i == CHOOSE k \in starts : \A j \in starts : k <= j
             IN <<  <<i, MatchEndAt(path, i)>>  >>
                \o FindAllFrom(path, MatchEndAt(path, i) + 1)
FindAllMatches(path) == FindAllFrom(path, 1)

\* The loop of ExtractLocale over the matches: the first match whose
\* lowercased capture is a known locale decides
RECURSIVE FirstKnownMatch(_, _)
FirstKnownMatch(path, matches) ==
    IF matches = <<>> THEN <<>>
    ELSE LET m == Head(matches)
             potentialLocale == ToLower(Slice(path, m[1] + 1, m[2] - 1))
         IN IF IsKnownLocale(potentialLocale) THEN m
            ELSE FirstKnownMatch(path, Tail(matches))

\* canonical = path[:match[0]] + "/" + path[match[1]:], doubled slashes
\* collapsed, "" turned into "/"
CanonicalOf(path, m) ==
    LET c == CollapseSlashes(Take(path, m[1] - 1) \o <<"/">> \o Drop(path, m[2]))
    IN IF c = <<>> THEN <<"/">> ELSE c

\* ExtractLocale(u, cfg): <<locale, canonical>>. u is a parsed URL or nil
\* (NoURL); param is cfg.ParamName, "" when cfg is nil or names no parameter.
ExtractLocale(u, param) ==
    IF ~u.ok THEN << <<>>, <<>> >>
    ELSE IF param # <<>> THEN <<QueryGet(u.RawQuery, param), u.Path>>
    ELSE LET m == FirstKnownMatch(u.Path, FindAllMatches(u.Path))
         IN IF m = <<>> THEN << <<>>, u.Path >>
            ELSE <<ToLower(Slice(u.Path, m[1] + 1, m[2] - 1)), CanonicalOf(u.Path, m)>>

\* The path mode of BuildLocaleURL
PathModeURLNoSlash(baseURL, locale, canonical) == baseURL \o locale \o canonical
PathModeURL(baseURL, locale, canonical) == baseURL \o <<"/">> \o locale \o canonical

\* BuildLocaleURL(baseURL, locale, canonical, cfg)
BuildLocaleURL(baseURL, locale, canonical, param) ==
    IF locale = <<>> THEN baseURL \o canonical
    ELSE IF param # <<>> THEN
        LET u == UrlParse(baseURL \o canonical)
        IN IF ~u.ok THEN baseURL \o canonical
           ELSE UrlString([u EXCEPT !.RawQuery = QuerySetEncode(u.RawQuery, param, locale)])
    ELSE PathModeURL(baseURL, locale, canonical)

\* SelectPreferredLocaleURL: the entry found by the walk over the priority
\* list, <<>> when no entry of the list is in the map
ExpandedForm(loc) == loc \o <<"-">> \o loc
RECURSIVE PriorityHitExpandedFirst(_, _)
PriorityHitExpandedFirst(m, prio) ==
    IF prio = <<>> THEN <<>>
    ELSE IF ExpandedForm(Head(prio)) \in DOMAIN m
        THEN <<ExpandedForm(Head(prio)), m[ExpandedForm(Head(prio))]>>
    ELSE IF Head(prio) \in DOMAIN m THEN <<Head(prio), m[Head(prio)]>>
    ELSE PriorityHitExpandedFirst(m, Tail(prio))
RECURSIVE PriorityHit(_, _)
PriorityHit(m, prio) ==
    IF prio = <<>> THEN <<>>
    ELSE IF Head(prio) \in DOMAIN m THEN <<Head(prio), m[Head(prio)]>>
    ELSE IF ExpandedForm(Head(prio)) \in DOMAIN m
        THEN <<ExpandedForm(Head(prio)), m[ExpandedForm(Head(prio))]>>
    ELSE PriorityHit(m, Tail(prio))

\* The results SelectPreferredLocaleURL can return: one for an empty map or
\* a priority hit, any entry of the map (Go's map iteration order) otherwise
SelectPreferredLocaleURL(m, prio) ==
    IF DOMAIN m = {} THEN { << <<>>, "" >> }
    ELSE IF PriorityHit(m, prio) # <<>> THEN {PriorityHit(m, prio)}
    ELSE {<<loc, m[loc]>> : loc \in DOMAIN m}

-----------------------------------------------------------------------------
(* Inputs of the locale utilities                                          *)

MaxSegs == 3
MaxCanonSegs == 2
MaxPrio == 2

S_hl == <<"h","l">>
S_ja == <<"j","a">>
S_en == <<"e","n">>
S_fr == <<"f","r">>
S_docs == <<"d","o","c","s">>
S_host == <<"h","t","t","p","s",":","/","/","x",".","i","o">>

\* "/" + segment for every segment: <<"">> is "/", <<"ja", "">> is "/ja/"
PathOf(segs) == Concat([i \in DOMAIN segs |-> <<"/">> \o segs[i]])
SeqsUpTo(S, n) == UNION {[1..k -> S] : k \in 1..n}

CrawlSegs == {<<>>, S_ja, <<"J","A">>, <<"m","y">>, <<"v","2">>,
              <<"e","n","-","U","S">>, S_docs}
CrawlPaths == {PathOf(segs) : segs \in SeqsUpTo(CrawlSegs, MaxSegs)}
CrawlQueries == {<<>>, <<"?">> \o S_hl \o <<"=">> \o S_ja,
                 <<"?","a","=","1","&">> \o S_hl \o <<"=">> \o S_en}
ParamNames == {<<>>, S_hl}

BaseURLs == {S_host, S_host \o <<"/">>, S_host \o <<"/","s","i","t","e">>,
             S_host \o <<"/">> \o S_en, S_host \o <<"/","g","o">>}
BuildLocales == KnownLocales \cup {<<>>}
CanonSegs == {<<>>, S_docs, S_en, <<"a">>}
CanonPaths == {PathOf(segs) : segs \in SeqsUpTo(CanonSegs, MaxCanonSegs)}

HrefKeys == {S_ja, S_en, ExpandedForm(S_ja), ExpandedForm(S_en),
             <<"j","a","-","j","p">>}
HrefURLs == {"u1", "u2"}
HreflangMaps == UNION {[K -> HrefURLs] : K \in SUBSET HrefKeys}
PrioLocales == {S_ja, S_en, S_fr}
Priorities == {<<>>} \cup SeqsUpTo(PrioLocales, MaxPrio)

NoResult == <<"none">>

-----------------------------------------------------------------------------
(* The locale utilities as steps                                           *)

LocaleOff ==
    /\ lflow = "off" /\ lstage = "off"
    /\ lbase = <<>> /\ llocale = <<>> /\ lcanon = <<>> /\ lparam = <<>>
    /\ lurl = <<>> /\ lu = NoURL /\ lres = NoResult

InitLocale ==
    /\ lparam \in ParamNames
    /\ lu = NoURL
    /\ lres = NoResult
    /\ \/ /\ lflow = "crawl" /\ lstage = "url"
          /\ lbase = <<>> /\ llocale = <<>> /\ lcanon = <<>>
          /\ \E p \in CrawlPaths, q \in CrawlQueries : lurl = S_host \o p \o q
       \/ /\ lflow = "build" /\ lstage = "input"
          /\ lbase \in BaseURLs /\ llocale \in BuildLocales /\ lcanon \in CanonPaths
          /\ lurl = <<>>

\* BuildLocaleURL(lbase, llocale, lcanon, cfg)
BuildStep ==
    /\ lstage = "input"
    /\ lurl' = BuildLocaleURL(lbase, llocale, lcanon, lparam)
    /\ lstage' = "url"
    /\ UNCHANGED <<lflow, lbase, llocale, lcanon, lparam, lu, lres>>

\* url.Parse of the URL string, as the callers of ExtractLocale do
ParseStep ==
    /\ lstage = "url"
    /\ lu' = UrlParse(lurl)
    /\ lstage' = "parsed"
    /\ UNCHANGED <<lflow, lbase, llocale, lcanon, lparam, lurl, lres>>

\* ExtractLocale(lu, cfg)
ExtractStep ==
    /\ lstage = "parsed"
    /\ lres' = ExtractLocale(lu, lparam)
    /\ lstage' = "extracted"
    /\ UNCHANGED <<lflow, lbase, llocale, lcanon, lparam, lurl, lu>>

PickerOff ==
    /\ pstage = "off" /\ hreflangMap = <<>> /\ priority = <<>> /\ psel = NoResult

InitPicker ==
    /\ pstage = "input"
    /\ hreflangMap \in HreflangMaps
    /\ priority \in Priorities
    /\ psel = NoResult

\* SelectPreferredLocaleURL(hreflangMap, priority)
SelectStep ==
    /\ pstage = "input"
    /\ psel' \in SelectPreferredLocaleURL(hreflangMap, priority)
    /\ pstage' = "selected"
    /\ UNCHANGED <<hreflangMap, priority>>

-----------------------------------------------------------------------------
(* RobotsManager                                                           *)

MaxCalls == 3
StatusOK == 200

Workers == {"w1", "w2"}
Unlocked == "unlocked"
userAgent == "site2skill"

\* r.robotsData == nil
NoData == [present |-> FALSE, groups |-> {}]

\* robots.txt bodies the site may serve, as the rule groups they parse to
Rule(allow, pattern) == [allow |-> allow, pattern |-> pattern]
RS_DisallowDocs ==
    [present |-> TRUE,
     groups |-> {[agent |-> "*", rules |-> <<Rule(FALSE, <<"/">> \o S_docs)>>]}]
RS_PerAgent ==
    [present |-> TRUE,
     groups |-> {[agent |-> "*", rules |-> <<Rule(FALSE, <<"/">>)>>],
                 [agent |-> userAgent,
                  rules |-> <<Rule(TRUE, <<"/">>),
                              Rule(FALSE, <<"/","s","i","t","e","/">>)>>]}]
Rulesets == {RS_DisallowDocs, RS_PerAgent}

\* What r.client.Do(req) can return, and whether the body parses
NoResp == [made |-> FALSE, err |-> FALSE, status |-> 0, parses |-> FALSE, body |-> NoData]
Responses ==
    {[made |-> TRUE, err |-> TRUE, status |-> 0, parses |-> FALSE, body |-> NoData],
     [made |-> TRUE, err |-> FALSE, status |-> 404, parses |-> FALSE,
      body |-> NoData],
     [made |-> TRUE, err |-> FALSE, status |-> StatusOK, parses |-> FALSE,
      body |-> NoData]}
    \cup {[made |-> TRUE, err |-> FALSE, status |-> StatusOK, parses |-> TRUE,
           body |-> rs] : rs \in Rulesets}

S_site == <<"/","s","i","t","e">>
S_badURL == <<":","b","a","d">>
RootURLs == {S_host \o S_site \o <<"/">>, S_badURL, S_site \o <<"/">>}
TargetURLs == {S_host \o S_site \o <<"/">> \o S_docs,
               S_host \o <<"/">> \o S_docs \o <<"?","q","=","1">>,
               S_host \o <<"/","a">>,
               S_badURL}
BasePathInputs == {<<>>, <<"/">>, S_site, S_site \o <<"/">>}

\* NewRobotsManager's normalisation of basePath
NewBasePath(b) ==
    LET b1 == IF b # <<>> /\ b # <<"/">> /\ ~HasSuffix(b, <<"/">>)
              THEN b \o <<"/">> ELSE b
    IN IF b1 = <<"/">> THEN <<>> ELSE b1

\* robotsURL := parsedURL.Scheme + "://" + parsedURL.Host + "/robots.txt"
RobotsURL(u) ==
    u.Scheme \o <<":","/","/">> \o u.Host
    \o <<"/","r","o","b","o","t","s",".","t","x","t">>

\* FetchRobotsTxt up to the request (lines 45-61): what the call does next
\* ("return" or "do"), what it returns, and r.fetched afterwards
FetchPrepareNoGuard(f, rootURL) ==
    IF ~UrlParse(rootURL).ok THEN [next |-> "return", val |-> "error", fetched |-> f]
    ELSE IF ~UrlParse(RobotsURL(UrlParse(rootURL))).ok
        THEN [next |-> "return", val |-> "error", fetched |-> f]
    ELSE [next |-> "do", val |-> "none", fetched |-> f]
FetchPrepareMarksFirst(f, rootURL) ==
    IF f THEN [next |-> "return", val |-> "nil", fetched |-> TRUE]
    ELSE IF ~UrlParse(rootURL).ok
        THEN [next |-> "return", val |-> "error", fetched |-> TRUE]
    ELSE IF ~UrlParse(RobotsURL(UrlParse(rootURL))).ok
        THEN [next |-> "return", val |-> "error", fetched |-> TRUE]
    ELSE [next |-> "do", val |-> "none", fetched |-> TRUE]
FetchPrepare(f, rootURL) ==
    IF f THEN [next |-> "return", val |-> "nil", fetched |-> f]
    ELSE IF ~UrlParse(rootURL).ok
        THEN [next |-> "return", val |-> "error", fetched |-> f]
    ELSE IF ~UrlParse(RobotsURL(UrlParse(rootURL))).ok
        THEN [next |-> "return", val |-> "error", fetched |-> f]
    ELSE [next |-> "do", val |-> "none", fetched |-> f]

\* FetchRobotsTxt from the response on (lines 63-88): what it returns, and
\* r.fetched and r.robotsData afterwards
FetchCompleteStrict(r, f, data) ==
    IF r.err \/ r.status # StatusOK \/ ~r.parses
    THEN [val |-> "error", fetched |-> f, robotsData |-> data]
    ELSE [val |-> "nil", fetched |-> TRUE, robotsData |-> r.body]
FetchComplete(r, f, data) ==
    IF r.err THEN [val |-> "nil", fetched |-> TRUE, robotsData |-> data]
    ELSE IF r.status # StatusOK
        THEN [val |-> "nil", fetched |-> TRUE, robotsData |-> data]
    ELSE IF ~r.parses THEN [val |-> "nil", fetched |-> TRUE, robotsData |-> data]
    ELSE [val |-> "nil", fetched |-> TRUE, robotsData |-> r.body]

\* robotstxt: FindGroup picks the group named for the agent, else the "*"
\* group, else a group with no rules
FindGroup(data, agent) ==
    IF \E g \in data.groups : g.agent = agent
    THEN (CHOOSE g \in data.groups : g.agent = agent).rules
    ELSE IF \E g \in data.groups : g.agent = "*"
    THEN (CHOOSE g \in data.groups : g.agent = "*").rules
    ELSE <<>>

\* robotstxt: Group.Test lets the first of the longest matching rules
\* decide, and allows when no rule matches
GroupTest(rules, path) ==
    LET hits == {i \in DOMAIN rules : HasPrefix(path, rules[i].pattern)}
        best == {i \in hits : \A j \in hits : Len(rules[j].pattern) <= Len(rules[i].pattern)}
    IN IF hits = {} THEN TRUE
       ELSE rules[CHOOSE i \in best : \A j \in best : i <= j].allow

\* The path IsAllowed tests (lines 105-117)
TestedPath(u, bp) ==
    LET path == u.Path \o (IF u.RawQuery # <<>> THEN <<"?">> \o u.RawQuery ELSE <<>>)
    IN IF bp # <<>> /\ HasPrefix(path, bp) THEN <<"/">> \o TrimPrefix(path, bp)
       ELSE path

\* IsAllowed(targetURL) on the state (f, data, bp)
IsAllowedDenyUnfetched(f, data, bp, targetURL) ==
    IF ~f \/ ~data.present THEN FALSE
    ELSE IF ~UrlParse(targetURL).ok THEN TRUE
    ELSE GroupTest(FindGroup(data, userAgent), TestedPath(UrlParse(targetURL), bp))
IsAllowed(f, data, bp, targetURL) ==
    IF ~f \/ ~data.present THEN TRUE
    ELSE IF ~UrlParse(targetURL).ok THEN TRUE
    ELSE GroupTest(FindGroup(data, userAgent), TestedPath(UrlParse(targetURL), bp))

NoRet == [op |-> "none", val |-> "none"]
BoolVal(b) == IF b THEN "true" ELSE "false"

RobotsOff ==
    /\ robotsData = NoData /\ fetched = FALSE /\ basePath = <<>> /\ mu = Unlocked
    /\ pc = [w \in Workers |-> "off"]
    /\ arg = [w \in Workers |-> <<>>]
    /\ ret = [w \in Workers |-> NoRet]
    /\ resp = [w \in Workers |-> NoResp]
    /\ later = [w \in Workers |-> {}]
    /\ returned = {} /\ requests = 0 /\ calls = 0

\* NewRobotsManager(client, userAgent, basePath)
InitRobots ==
    /\ robotsData = NoData
    /\ fetched = FALSE
    /\ basePath \in {NewBasePath(b) : b \in BasePathInputs}
    /\ mu = Unlocked
    /\ pc = [w \in Workers |-> "idle"]
    /\ arg = [w \in Workers |-> <<>>]
    /\ ret = [w \in Workers |-> NoRet]
    /\ resp = [w \in Workers |-> NoResp]
    /\ later = [w \in Workers |-> {}]
    /\ returned = {}
    /\ requests = 0
    /\ calls = 0

\* A crawl worker calls r.FetchRobotsTxt(rootURL)
CallFetch(w, rootURL) ==
    /\ pc[w] = "idle" /\ calls < MaxCalls
    /\ pc' = [pc EXCEPT ![w] = "fetch_lock"]
    /\ arg' = [arg EXCEPT ![w] = rootURL]
    /\ ret' = [ret EXCEPT ![w] = NoRet]
    /\ resp' = [resp EXCEPT ![w] = NoResp]
    /\ later' = [later EXCEPT ![w] = returned]
    /\ calls' = calls + 1
    /\ UNCHANGED <<robotsData, fetched, basePath, mu, returned, requests>>

\* A crawl worker calls r.IsAllowed(targetURL)
CallIsAllowed(w, targetURL) ==
    /\ pc[w] = "idle" /\ calls < MaxCalls
    /\ pc' = [pc EXCEPT ![w] = "allowed_lock"]
    /\ arg' = [arg EXCEPT ![w] = targetURL]
    /\ ret' = [ret EXCEPT ![w] = NoRet]
    /\ resp' = [resp EXCEPT ![w] = NoResp]
    /\ later' = [later EXCEPT ![w] = returned]
    /\ calls' = calls + 1
    /\ UNCHANGED <<robotsData, fetched, basePath, mu, returned, requests>>

\* r.mu.Lock() at the top of either method
Lock(w) ==
    /\ pc[w] \in {"fetch_lock", "allowed_lock"}
    /\ mu = Unlocked
    /\ mu' = w
    /\ pc' = [pc EXCEPT ![w] = IF pc[w] = "fetch_lock" THEN "fetch_body"
                                 ELSE "allowed_body"]
    /\ UNCHANGED <<robotsData, fetched, basePath, arg, ret, resp, later,
                   returned, requests, calls>>

\* FetchRobotsTxt from the fetched test to r.client.Do(req) being called
FetchBody(w) ==
    /\ pc[w] = "fetch_body"
    /\ LET p == FetchPrepare(fetched, arg[w])
       IN /\ fetched' = p.fetched
          /\ IF p.next = "do"
             THEN /\ pc' = [pc EXCEPT ![w] = "fetch_do"]
                  /\ requests' = requests + 1
                  /\ ret' = ret
             ELSE /\ pc' = [pc EXCEPT ![w] = "fetch_unlock"]
                  /\ requests' = requests
                  /\ ret' = [ret EXCEPT ![w] = [op |-> "fetch", val |-> p.val]]
    /\ UNCHANGED <<robotsData, basePath, mu, arg, resp, later, returned, calls>>

\* r.client.Do(req) returns r, and FetchRobotsTxt runs to its return
FetchDo(w, r) ==
    /\ pc[w] = "fetch_do"
    /\ LET c == FetchComplete(r, fetched, robotsData)
       IN /\ fetched' = c.fetched
          /\ robotsData' = c.robotsData
          /\ ret' = [ret EXCEPT ![w] = [op |-> "fetch", val |-> c.val]]
    /\ resp' = [resp EXCEPT ![w] = r]
    /\ pc' = [pc EXCEPT ![w] = "fetch_unlock"]
    /\ UNCHANGED <<basePath, mu, arg, later, returned, requests, calls>>

\* IsAllowed from the fetched test to its return
IsAllowedBody(w) ==
    /\ pc[w] = "allowed_body"
    /\ ret' = [ret EXCEPT ![w] =
                  [op |-> "allowed",
                   val |-> BoolVal(IsAllowed(fetched, robotsData, basePath, arg[w]))]]
    /\ pc' = [pc EXCEPT ![w] = "allowed_unlock"]
    /\ UNCHANGED <<robotsData, fetched, basePath, mu, arg, resp, later,
                   returned, requests, calls>>

\* defer r.mu.Unlock(): the method returns to its caller
UnlockLeaksOnError(w) ==
    /\ pc[w] \in {"fetch_unlock", "allowed_unlock"}
    /\ mu = w
    /\ mu' = IF ret[w].val = "error" THEN w ELSE Unlocked
    /\ pc' = [pc EXCEPT ![w] = "idle"]
    /\ returned' = IF pc[w] = "fetch_unlock" THEN returned \cup {ret[w].val}
                   ELSE returned
    /\ UNCHANGED <<robotsData, fetched, basePath, arg, ret, resp, later,
                   requests, calls>>
Unlock(w) ==
    /\ pc[w] \in {"fetch_unlock", "allowed_unlock"}
    /\ mu = w
    /\ mu' = Unlocked
    /\ pc' = [pc EXCEPT ![w] = "idle"]
    /\ returned' = IF pc[w] = "fetch_unlock" THEN returned \cup {ret[w].val}
                   ELSE returned
    /\ UNCHANGED <<robotsData, fetched, basePath, arg, ret, resp, later,
                   requests, calls>>

-----------------------------------------------------------------------------
(* Specifications                                                          *)

Init == InitRobots /\ LocaleOff /\ PickerOff

Next ==
    \/ \E w \in Workers, rootURL \in RootURLs :
           CallFetch(w, rootURL) /\ UNCHANGED <<localeVars, pickerVars>>
    \/ \E w \in Workers, targetURL \in TargetURLs :
           CallIsAllowed(w, targetURL) /\ UNCHANGED <<localeVars, pickerVars>>
    \/ \E w \in Workers : Lock(w) /\ UNCHANGED <<localeVars, pickerVars>>
    \/ \E w \in Workers : FetchBody(w) /\ UNCHANGED <<localeVars, pickerVars>>
    \/ \E w \in Workers, r \in Responses :
           FetchDo(w, r) /\ UNCHANGED <<localeVars, pickerVars>>
    \/ \E w \in Workers : IsAllowedBody(w) /\ UNCHANGED <<localeVars, pickerVars>>
    \/ \E w \in Workers : Unlock(w) /\ UNCHANGED <<localeVars, pickerVars>>

Spec == Init /\ [][Next]_vars

InitLocaleSpec == RobotsOff /\ InitLocale /\ PickerOff
NextLocale ==
    \/ BuildStep /\ UNCHANGED <<robotsVars, pickerVars>>
    \/ ParseStep /\ UNCHANGED <<robotsVars, pickerVars>>
    \/ ExtractStep /\ UNCHANGED <<robotsVars, pickerVars>>
SpecLocale == InitLocaleSpec /\ [][NextLocale]_vars

InitPickerSpec == RobotsOff /\ LocaleOff /\ InitPicker
NextPicker == SelectStep /\ UNCHANGED <<robotsVars, localeVars>>
SpecPicker == InitPickerSpec /\ [][NextPicker]_vars

\* What the run time guarantees a worker that is inside a call: a goroutine
\* waiting in r.mu.Lock() gets the mutex when it is free again and again
\* (sync.Mutex hands the lock to a starving waiter), the goroutine that
\* holds the lock keeps running, r.client.Do (the caller's transport)
\* returns, and the deferred Unlock runs. FetchBody(w) and IsAllowedBody(w)
\* are enabled whenever w is at them and are the only steps that move w on,
\* so weak fairness of each says that w is not at it for ever, and is
\* written so. Nothing obliges a worker to make a call.
WorkerProgress(w) ==
    /\ SF_vars(Lock(w) /\ UNCHANGED <<localeVars, pickerVars>>)
    /\ []<>(pc[w] # "fetch_body")
    /\ WF_vars((\E r \in Responses : FetchDo(w, r))
               /\ UNCHANGED <<localeVars, pickerVars>>)
    /\ []<>(pc[w] # "allowed_body")
    /\ WF_vars(Unlock(w) /\ UNCHANGED <<localeVars, pickerVars>>)
FairSpec == Init /\ [][Next]_vars /\ \A w \in Workers : WorkerProgress(w)

-----------------------------------------------------------------------------
(* Properties of RobotsManager, checked under Spec                         *)

\* A FetchRobotsTxt call of w has run to its return statement
FetchAtReturn(w) == pc[w] = "fetch_unlock"
\* The response of w's request is one of the three failures
FailedResponse(r) == r.made /\ (r.err \/ r.status # StatusOK \/ ~r.parses)

\* C1: however the workers' FetchRobotsTxt and IsAllowed calls interleave,
\* r.client.Do is called at most once over the life of the instance.
C1_SingleRoundTrip == requests <= 1

\* A second FetchRobotsTxt call, invoked after one had returned nil, has
\* returned, and the one request was made.
C1_Witness ==
    /\ requests = 1
    /\ \E w \in Workers :
           pc[w] = "idle" /\ ret[w].op = "fetch" /\ "nil" \in later[w]

PolicyUnchanged ==
    /\ fetched' = fetched
    /\ robotsData' = robotsData
    /\ requests' = requests
    /\ \A t \in TargetURLs :
           IsAllowed(fetched', robotsData', basePath', t)
               = IsAllowed(fetched, robotsData, basePath, t)

\* While w runs the body of a FetchRobotsTxt call, the call is a no-op: it
\* makes no request, changes nothing and returns nil
FetchIsNoOp(w) ==
    pc[w] \in {"fetch_body", "fetch_do"} =>
        /\ PolicyUnchanged
        /\ pc'[w] # "fetch_do"
        /\ pc'[w] = "fetch_unlock" => ret'[w].val = "nil"

\* C3 as stated: once a FetchRobotsTxt call has returned, whatever it
\* returned, every later FetchRobotsTxt call is a no-op that returns nil.
C3_Original ==
    [][\A w \in Workers : later[w] # {} => FetchIsNoOp(w)]_vars

\* C3 as amended: once a FetchRobotsTxt call has returned nil (success,
\* transport error, non-success status or grammar error), every later
\* FetchRobotsTxt call is a no-op that returns nil, makes no request and
\* leaves fetched, robotsData and every IsAllowed answer unchanged.
C3_Idempotent ==
    [][\A w \in Workers : "nil" \in later[w] => FetchIsNoOp(w)]_vars

\* A FetchRobotsTxt call invoked after a fail-open fetch had returned nil has
\* returned nil without a request of its own.
C3_Witness ==
    \E w \in Workers :
        /\ FetchAtReturn(w) /\ "nil" \in later[w]
        /\ ret[w].val = "nil" /\ ~resp[w].made
        /\ fetched /\ ~robotsData.present

\* C4: an IsAllowed call that runs while no fetch has succeeded (fetched is
\* false, or no ruleset is stored) returns true, whatever its argument.
C4_AllowWithoutPolicy ==
    \A w \in Workers :
        (pc[w] = "allowed_unlock" /\ (~fetched \/ ~robotsData.present))
            => ret[w].val = "true"

\* IsAllowed has answered true for a URL that does not parse, after a fetch
\* that failed open.
C4_Witness ==
    \E w \in Workers :
        /\ pc[w] = "allowed_unlock" /\ arg[w] = S_badURL
        /\ fetched /\ ~robotsData.present
        /\ ret[w].val = "true"

\* C5: a FetchRobotsTxt call whose request ends in a transport error, a
\* status other than 200 or a body that does not parse returns nil and
\* leaves fetched = true with no ruleset stored.
C5_FailOpen ==
    \A w \in Workers :
        (FetchAtReturn(w) /\ FailedResponse(resp[w]))
            => (ret[w].val = "nil" /\ fetched /\ ~robotsData.present)

\* A FetchRobotsTxt call whose request ended in a transport error has run
\* to its return.
C5_Witness ==
    \E w \in Workers : FetchAtReturn(w) /\ resp[w].made /\ resp[w].err

\* C6: a FetchRobotsTxt call that returns an error leaves the instance
\* unfetched with no ruleset, and no request has been made.
C6_ErrorLeavesUnfetched ==
    \A w \in Workers :
        (FetchAtReturn(w) /\ ret[w].val = "error")
            => (~fetched /\ ~robotsData.present /\ ~resp[w].made /\ requests = 0)

\* FetchRobotsTxt has returned the parse error of a malformed root URL.
C6_Witness ==
    \E w \in Workers :
        FetchAtReturn(w) /\ ret[w].val = "error" /\ arg[w] = S_badURL

\* w is inside a FetchRobotsTxt or IsAllowed call that has not returned
Pending(w) == pc[w] # "idle"
\* w holds r.mu exactly while it is between Lock() and the deferred Unlock()
HoldsLockInsideCallOnly(w) ==
    mu = w <=> pc[w] \in {"fetch_body", "fetch_do", "fetch_unlock",
                           "allowed_body", "allowed_unlock"}

\* C11: a worker holds r.mu only between Lock() and its return, whatever
\* exit path the call takes, and under fair scheduling with a transport call
\* that returns every pending FetchRobotsTxt or IsAllowed call returns.
C11_LockReleased ==
    /\ [](\A w \in Workers : HoldsLockInsideCallOnly(w))
    /\ \A w \in Workers : Pending(w) ~> ~Pending(w)

\* All calls have returned with the lock free: a FetchRobotsTxt call that
\* returned an error, one that returned nil after its request, and an
\* IsAllowed call.
C11_Witness ==
    /\ \A w \in Workers : ~Pending(w)
    /\ mu = Unlocked
    /\ returned = {"nil", "error"}
    /\ requests = 1
    /\ \E w \in Workers : ret[w].op = "allowed"


-----------------------------------------------------------------------------
(* Properties of ExtractLocale and BuildLocaleURL, checked under SpecLocale *)

\* ExtractLocale has run in path mode on a parsed URL
ExtractedInPathMode == lstage = "extracted" /\ lparam = <<>> /\ lu.ok

\* The segments of a path, split at "/", and the path they spell
Segments(path) == Split(path, "/")
RECURSIVE JoinSlash(_)
JoinSlash(segs) ==
    IF segs = <<>> THEN <<>>
    ELSE IF Len(segs) = 1 THEN Head(segs)
    ELSE Head(segs) \o <<"/">> \o JoinSlash(Tail(segs))

\* The positions of the segments with a slash on both sides whose lowercased
\* form is in the registry
EnclosedLocaleSegs(path) ==
    {k \in 2..(Len(Segments(path)) - 1) : ToLower(Segments(path)[k]) \in KnownLocales}
FirstOf(S) == CHOOSE k \in S : \A j \in S : k <= j
WithoutSeg(segs, k) == Take(segs, k - 1) \o Drop(segs, k)

\* C7: in path mode the locale returned is "" or a member of the registry,
\* and a path none of whose segments lowercases to a member of the registry
\* gives locale "" and the path itself as canonical path.
C7_RegistryOnly ==
    ExtractedInPathMode =>
        /\ lres[1] = <<>> \/ lres[1] \in KnownLocales
        /\ (\A k \in DOMAIN Segments(lu.Path) :
                ToLower(Segments(lu.Path)[k]) \notin KnownLocales)
               => lres = << <<>>, lu.Path >>

\* /my/docs: the segment has the shape of a locale and is not in the
\* registry; the path came back unchanged with no locale.
C7_Witness ==
    /\ ExtractedInPathMode
    /\ lu.Path = PathOf(<< <<"m","y">>, S_docs >>)
    /\ lres = << <<>>, lu.Path >>

\* C8: in path mode, a path with a slash-enclosed segment whose lowercased
\* form is in the registry gives the lowercased first such segment as locale
\* and the path without that one segment as canonical path.
C8_FirstLocaleSegment ==
    (ExtractedInPathMode /\ EnclosedLocaleSegs(lu.Path) # {}) =>
        LET k == FirstOf(EnclosedLocaleSegs(lu.Path))
        IN lres = <<ToLower(Segments(lu.Path)[k]),
                    JoinSlash(WithoutSeg(Segments(lu.Path), k))>>

\* The round trip was run in path mode with a locale of the registry
RoundTripRun ==
    /\ lflow = "build" /\ lstage = "extracted" /\ lparam = <<>>
    /\ llocale \in KnownLocales

\* C9 as stated: for every base URL the round trip returns (L, C).
C9_Original == RoundTripRun => lres = <<llocale, lcanon>>

\* C9 as amended: for a base URL without a path (scheme://host, with or
\* without a closing "/") and a canonical path that begins with "/" and has
\* no "//" in it, the round trip returns (L, C).
C9_RoundTrip ==
    (/\ RoundTripRun
     /\ UrlParse(lbase).Path \in {<<>>, <<"/">>}
     /\ ~Contains(lcanon, <<"/", "/">>))
        => lres = <<llocale, lcanon>>

\* https://x.io + en-us + /docs/en has come back as (en-us, /docs/en).
C9_Witness ==
    /\ RoundTripRun
    /\ lbase = S_host
    /\ llocale = <<"e","n","-","u","s">>
    /\ lcanon = PathOf(<<S_docs, S_en>>)
    /\ lres = <<llocale, lcanon>>

-----------------------------------------------------------------------------
(* Properties of SelectPreferredLocaleURL, checked under SpecPicker        *)

\* The positions of the priority list whose locale, or its doubled form, is
\* a key of the map
PriorityMatches ==
    {i \in DOMAIN priority :
        priority[i] \in DOMAIN hreflangMap
        \/ ExpandedForm(priority[i]) \in DOMAIN hreflangMap}

====
